---- MODULE Spec2Model ----
(***************************************************************************)
(* The legacy CMake driver (src/src/legacy-driver.ts) as a state machine.  *)
(*                                                                         *)
(* Every async method of LegacyCMakeDriver is a task that advances from    *)
(* one await to the next; what runs between two awaits is one atomic step  *)
(* (JavaScript's single thread).  The file system, the configure process   *)
(* and the file watcher are the environment: the disk changes when a       *)
(* process or an editor writes it, a promise settles in some later step.   *)
(***************************************************************************)
EXTENDS Integers, Sequences, FiniteSets, TLC

\* Bound of the model: the driver methods called and the external edits of
\* the cache file in one run, together.
MaxEvents == 2

VARIABLES
    needsReconfigure,     \* _needsReconfigure
    cmakeCache,           \* _cmakeCache (with the reload that installed it)
    compilationDatabase,  \* _compilationDatabase, a promise
    projectName,          \* what doSetProjectName last set ("" before)
    registered,           \* the onDidChange listener is registered
    disposed,             \* _cacheWatcher.dispose() was called
    disk,                 \* the binary directory on disk
    pendingNotifs,        \* the watcher has a change event to fire (it
                          \* fires one event for the changes it gathered)
    tasks,                \* the calls in progress
    last,                 \* the outcome of the call that finished last
    errSink,              \* entries of the error-reporting sink (rollbar)
    initOk,               \* doInit has returned: the driver is handed out
    nextId, nextRid, ncalls, nedits,
    \* history variables
    everOverlap,          \* some driver method started while another ran
    cleared,              \* a configure exited 0 and no setKit or
                          \* cleanConfigure has started since
    watched,              \* "yes": the cache file's latest change is an
                          \* edit whose change event reached the listener;
                          \* "pending": the event has not fired yet
    outOfOrder            \* a reload installed over a later-started one

vars == <<needsReconfigure, cmakeCache, compilationDatabase, projectName,
          registered, disposed, disk, pendingNotifs, tasks, last, errSink,
          initOk, nextId, nextRid, ncalls, nedits, everOverlap, cleared,
          watched, outOfOrder>>

driverVars == <<needsReconfigure, cmakeCache, compilationDatabase,
                projectName>>
watchVars == <<registered, disposed>>

-----------------------------------------------------------------------------
\* The cache file: absent, unparsable ("bad"), or one of two contents.
Parsable == {"c0", "cFoo"}
ProcWrites == {"cFoo"}
EditWrites == {"c0", "cFoo", "bad"}

\* The entries a cache file holds.
EntriesOf(file) ==
    CASE file = "c0"   -> {<<"CMAKE_GENERATOR", "Ninja">>}
      [] file = "cFoo" -> {<<"CMAKE_GENERATOR", "Ninja">>,
                           <<"CMAKE_PROJECT_NAME", "Foo">>}
      [] OTHER         -> {}

\* CMakeCache.fromPath: the snapshot, or a failure for a missing or
\* unparsable file.
FromPath(file) ==
    [ok |-> file \in Parsable, entries |-> EntriesOf(file)]

\* CMakeCache.get
HasKey(entries, key) == \E e \in entries : e[1] = key
Get(entries, key) == (CHOOSE e \in entries : e[1] = key)[2]

\* CompilationDatabase.fromFilePath: null for a missing file.
CompdbFromFilePath(file) == IF file = "absent" THEN "null" ELSE file

NoCache == [loaded |-> FALSE, entries |-> {}, by |-> 0]

\* get cmakeCacheEntries: the map from key to entry, empty without a cache
CmakeCacheEntries(cache) ==
    IF cache.loaded
    THEN [k \in {e[1] : e \in cache.entries} |-> Get(cache.entries, k)]
    ELSE <<>>
NoDisk == [dir |-> FALSE, cache |-> "absent", files |-> FALSE, db |-> "absent"]

\* The exit codes of the process: <<n>>, or <<>> for null.
ExitCodes == {<<0>>, <<1>>, <<>>}

NoTask ==
    [id |-> 0, op |-> "none", pc |-> "none", clean |-> FALSE,
     exited |-> FALSE, retc |-> <<>>, delFailed |-> FALSE,
     loadOk |-> FALSE, new_cache |-> {}, rid |-> 0, nrStart |-> TRUE, solo |-> TRUE,
     edited |-> FALSE, ran |-> FALSE, absentAtExec |-> FALSE,
     dirAtCb |-> FALSE, cbRan |-> FALSE, how |-> "none", code |-> <<>>,
     nrEnd |-> TRUE, synced |-> FALSE,
     loads |-> 0, loadsDone |-> 0, twice |-> FALSE,
     mid |-> FALSE, peer |-> FALSE]

\* The driver methods in progress (a reload that a change event started is
\* not a call of a driver method).
Callers == {t \in tasks : t.op # "watch"}

NewTask(op, clean, pc) ==
    [NoTask EXCEPT !.id = nextId, !.op = op, !.pc = pc, !.clean = clean,
                   !.nrStart = needsReconfigure, !.solo = (Callers = {})]

InReload(t) == t.pc = "load"

\* currentCache is the snapshot of the cache file as it is on disk.
InSync(cache, d) ==
    /\ cache.loaded
    /\ FromPath(d.cache).ok
    /\ cache.entries = FromPath(d.cache).entries

\* The call t once the reload it awaited has settled.
Reloaded(t) == [t EXCEPT !.loadsDone = @ + 1]

\* The record of a finished call, as its caller sees it.
Finished(t, how, code) ==
    [t EXCEPT !.pc = "done", !.how = how, !.code = code, !.id = 0,
              !.rid = 0, !.loadOk = FALSE, !.new_cache = {},
              !.nrEnd = needsReconfigure',
              !.synced = InSync(cmakeCache', disk'),
              !.peer = (t.mid /\ last.mid /\ last.pc = "done"
                           /\ last.how = "return")]

-----------------------------------------------------------------------------
Init ==
    /\ needsReconfigure = TRUE
    /\ cmakeCache = NoCache
    /\ compilationDatabase = [by |-> 0, db |-> "null"]
    /\ projectName = ""
    /\ registered = FALSE
    /\ disposed = FALSE
    /\ disk \in {NoDisk,
                 [dir |-> TRUE, cache |-> "c0", files |-> TRUE,
                  db |-> "db1"],
                 [dir |-> TRUE, cache |-> "bad", files |-> FALSE,
                  db |-> "absent"]}
    /\ pendingNotifs = FALSE
    /\ tasks = {[NoTask EXCEPT !.id = 1, !.op = "init", !.pc = "exists"]}
    /\ last = NoTask
    /\ errSink = 0
    /\ initOk = FALSE
    /\ nextId = 2
    /\ nextRid = 1
    /\ ncalls = 0
    /\ nedits = 0
    /\ everOverlap = FALSE
    /\ cleared = FALSE
    /\ watched = "no"
    /\ outOfOrder = FALSE

-----------------------------------------------------------------------------
\* A driver method may be called once create() has returned the driver
\* and until it is disposed of.
CanCall ==
    /\ initOk
    /\ ~disposed
    /\ ncalls + nedits < MaxEvents
    /\ Cardinality(Callers) <= 1

\* The tasks after a new call has started: the calls it overlaps are no
\* longer alone.
Started(t) == {[u EXCEPT !.solo = (u.op = "watch" /\ u.solo)] : u \in tasks}
                  \cup {t}

CallBookkeeping ==
    /\ ncalls' = ncalls + 1
    /\ nextId' = nextId + 1
    /\ last' = NoTask
    /\ everOverlap' = (everOverlap \/ Callers # {})

Replace(t, u) == (tasks \ {t}) \cup {u}

\* A reload starts: CMakeCache.fromPath(this.cachePath) is called and takes
\* the file as it is on disk now; its promise settles in a later step.
Loading(t) ==
    [t EXCEPT !.pc = "load", !.rid = nextRid, !.edited = FALSE,
              !.loads = @ + 1,
              !.loadOk = FromPath(disk'.cache).ok,
              !.new_cache = FromPath(disk'.cache).entries]

-----------------------------------------------------------------------------
\* doSetKit
\* Mutant of SetKitFlag: doSetKit leaves the flag alone.
SetKitFlagKept == needsReconfigure

\* this._needsReconfigure = true
SetKitFlag == TRUE

\* A configure call suspended at await ...executeCommand(...).result
AwaitsProcess(t) == t.op = "configure" /\ t.pc = "exec"

\* doSetKit up to its first await
SetKit(need_clean) ==
    /\ CanCall
    /\ needsReconfigure' = SetKitFlag
    /\ tasks' = {[u EXCEPT !.mid = (u.mid \/ AwaitsProcess(u))] :
                    u \in Started([NewTask("setKit", need_clean,
                                           IF need_clean THEN "rmdir" ELSE "cb")
                                     EXCEPT !.cbRan = ~need_clean,
                                            !.dirAtCb = (~need_clean /\ disk.dir),
                                            !.mid = (\E c \in tasks :
                                                        AwaitsProcess(c))])}
    /\ cleared' = FALSE
    /\ CallBookkeeping
    /\ UNCHANGED <<cmakeCache, compilationDatabase, projectName, watchVars,
                   disk, pendingNotifs, errSink, initOk, nextRid, nedits,
                   watched, outOfOrder>>

\* What a failed fs.rmdir(this.binaryDir) does to the call: it throws.
RmdirFailureThrows == TRUE

\* Mutant of AfterRmdir: the loaded cache is dropped with the directory.
AfterRmdirForgets(t) == NoCache

\* After the rmdir doSetKit goes on to cb(): the loaded cache stays.
AfterRmdir(t) == cmakeCache

\* await fs.rmdir(this.binaryDir) settles
SetKitRmdir(t) ==
    /\ t.op = "setKit" /\ t.pc = "rmdir"
    /\ UNCHANGED <<needsReconfigure, compilationDatabase, projectName,
                   watchVars, pendingNotifs, errSink, initOk,
                   nextId, nextRid, ncalls, nedits, everOverlap, cleared,
                   outOfOrder>>
    /\ \E ok \in BOOLEAN :
         IF ok
         THEN /\ disk' = NoDisk
              /\ cmakeCache' = AfterRmdir(t)
              /\ watched' = "no"
              /\ tasks' = Replace(t, [t EXCEPT !.pc = "rmdir_ok"])
              /\ last' = last
         ELSE /\ disk' = disk
              /\ cmakeCache' = cmakeCache
              /\ watched' = watched
              /\ IF RmdirFailureThrows
                 THEN /\ tasks' = tasks \ {t}
                      /\ last' = Finished([t EXCEPT !.delFailed = TRUE],
                                          "throw", <<>>)
                 ELSE /\ tasks' = Replace(t, [t EXCEPT !.pc = "rmdir_ok",
                                                       !.delFailed = TRUE])
                      /\ last' = last

\* the continuation after the rmdir: cb() is invoked
SetKitCb(t) ==
    /\ t.op = "setKit" /\ t.pc = "rmdir_ok"
    /\ tasks' = Replace(t, [t EXCEPT !.pc = "cb", !.cbRan = TRUE,
                                     !.dirAtCb = disk.dir])
    /\ UNCHANGED <<driverVars, watchVars, disk, pendingNotifs, last, errSink,
                   initOk, nextId, nextRid, ncalls, nedits, everOverlap,
                   cleared, watched, outOfOrder>>

\* await cb() settles: the callback returned, or threw
SetKitDone(t) ==
    /\ t.op = "setKit" /\ t.pc = "cb"
    /\ UNCHANGED <<driverVars, watchVars, disk, pendingNotifs, errSink,
                   initOk, nextId, nextRid, ncalls, nedits, everOverlap,
                   cleared, watched, outOfOrder>>
    /\ \E ok \in BOOLEAN :
         last' = Finished(t, IF ok THEN "return" ELSE "throw", <<>>)
    /\ tasks' = tasks \ {t}

-----------------------------------------------------------------------------
\* doConfigure

\* Mutants of AfterExit: the flag is set again on a failure; the flag is
\* never cleared.
AfterExitRearms(retc) == retc # <<0>>
AfterExitKeeps(retc) == needsReconfigure

\* if (res.retc == 0) { this._needsReconfigure = false; }
AfterExit(retc) == IF retc = <<0>> THEN FALSE ELSE needsReconfigure

\* return res.retc === null ? -1 : res.retc
ReturnCode(retc) == IF retc = <<>> THEN <<-1>> ELSE retc

\* doConfigure up to its first await: the process is spawned
Configure ==
    /\ CanCall
    /\ tasks' = Started([NewTask("configure", FALSE, "exec")
                           EXCEPT !.ran = TRUE])
    /\ CallBookkeeping
    /\ UNCHANGED <<driverVars, watchVars, disk, pendingNotifs, errSink,
                   initOk, nextRid, nedits, cleared, watched, outOfOrder>>

\* Mutant of ReloadsAfterExit: the reload is skipped when the process failed.
ReloadsOnSuccessOnly(retc) == retc = <<0>>

\* await this._reloadPostConfigure(): on every exit code
ReloadsAfterExit(retc) == TRUE

\* The process ends with exit code retc, having written the cache file
\* (and CMakeFiles, and on success compile_commands.json) or nothing; the
\* continuation clears the flag on 0 and starts the reload.
ProcessDone(t) ==
    /\ t.pc = "exec"
    /\ UNCHANGED <<cmakeCache, compilationDatabase, projectName, watchVars,
                   errSink, initOk, nextId, ncalls, nedits, everOverlap,
                   outOfOrder>>
    /\ \E retc \in ExitCodes, w \in {"none"} \cup ProcWrites :
         /\ disk' = IF w = "none" THEN disk
                    ELSE [dir |-> TRUE, cache |-> w, files |-> TRUE,
                          db |-> IF retc = <<0>> THEN "db1" ELSE disk.db]
         /\ pendingNotifs' =
                (pendingNotifs
                     \/ (w # "none" /\ disk.cache # "absent" /\ ~disposed))
         /\ watched' = IF w = "none" THEN watched ELSE "no"
         /\ needsReconfigure' = AfterExit(retc)
         /\ cleared' = IF retc = <<0>> THEN TRUE ELSE cleared
         /\ IF ReloadsAfterExit(retc)
            THEN /\ tasks' = Replace(t, [Loading(t) EXCEPT !.exited = TRUE,
                                                           !.retc = retc])
                 /\ nextRid' = nextRid + 1
                 /\ last' = last
            ELSE /\ tasks' = tasks \ {t}
                 /\ nextRid' = nextRid
                 /\ last' = Finished([t EXCEPT !.exited = TRUE,
                                               !.retc = retc],
                                     "return", ReturnCode(retc))

-----------------------------------------------------------------------------
\* _reloadPostConfigure

\* Mutant of Propagates: doPostBuild swallows the error and returns.
PropagatesExceptPostBuild(op) == op \in {"init", "configure", "cleanConfigure"}

\* A reload's error reaches the caller that awaits the reload.
Propagates(op) == op \in {"init", "configure", "cleanConfigure", "postBuild"}

\* rollbar.invokeAsync reports the error of the reload it runs.
Reported(op) == op = "watch"

\* Mutant of InstalledCache: the new entries are merged into the old ones.
InstalledCacheMerged(t) ==
    [loaded |-> TRUE, entries |-> cmakeCache.entries \cup t.new_cache,
     by |-> t.rid]

\* this._cmakeCache = new_cache
InstalledCache(t) == [loaded |-> TRUE, entries |-> t.new_cache, by |-> t.rid]

\* Mutant of InstalledProjectName: a snapshot without the entry clears the
\* project name.
InstalledProjectNameOrNone(t) ==
    IF HasKey(t.new_cache, "CMAKE_PROJECT_NAME")
    THEN Get(t.new_cache, "CMAKE_PROJECT_NAME")
    ELSE ""

\* if (project) { this.doSetProjectName(project.as<string>()); }
InstalledProjectName(t) ==
    IF HasKey(t.new_cache, "CMAKE_PROJECT_NAME")
    THEN Get(t.new_cache, "CMAKE_PROJECT_NAME")
    ELSE projectName

\* Mutant of InstalledCompdb: a reload that finds a database loaded drops
\* it, and loads one only when none is loaded.
InstalledCompdbToggled(t) ==
    [by |-> t.rid,
     db |-> IF compilationDatabase.db = "null"
            THEN CompdbFromFilePath(disk.db)
            ELSE "null"]

\* Mutant of InstalledCompdb: the reload leaves the database alone.
InstalledCompdbKept(t) == compilationDatabase

\* this._compilationDatabase = CompilationDatabase.fromFilePath(...): the
\* promise of what compile_commands.json holds now
InstalledCompdb(t) == [by |-> t.rid, db |-> CompdbFromFilePath(disk.db)]

\* Mutant of AfterFailedLoad: the compilation database is loaded again
\* although the cache load failed.
AfterFailedLoadCompdb(t) == <<cmakeCache, projectName, InstalledCompdb(t)>>

\* The throw of await CMakeCache.fromPath(...) skips the rest of
\* _reloadPostConfigure: the cache, the project name and the database stay.
AfterFailedLoad(t) == <<cmakeCache, projectName, compilationDatabase>>

\* await CMakeCache.fromPath(this.cachePath) throws: the error leaves the
\* reload, which has changed nothing, and the method that awaited it.
ReloadFail(t) ==
    /\ t.pc = "load" /\ ~t.loadOk
    /\ cmakeCache' = AfterFailedLoad(t)[1]
    /\ projectName' = AfterFailedLoad(t)[2]
    /\ compilationDatabase' = AfterFailedLoad(t)[3]
    /\ UNCHANGED <<needsReconfigure, watchVars, disk, pendingNotifs, initOk,
                   nextId, nextRid, ncalls, nedits, everOverlap, cleared,
                   watched, outOfOrder>>
    /\ tasks' = tasks \ {t}
    /\ errSink' = errSink + (IF Reported(t.op) THEN 1 ELSE 0)
    /\ last' = IF t.op = "watch" THEN last
               ELSE IF Propagates(t.op)
                    THEN Finished(Reloaded(t), "throw", <<>>)
                    ELSE Finished(Reloaded(t), "return", ReturnCode(t.retc))

\* The rest of _reloadPostConfigure, and of the method that awaited it.
ReloadInstall(t) ==
    /\ t.pc = "load" /\ t.loadOk
    /\ UNCHANGED <<needsReconfigure, disposed, disk, pendingNotifs, errSink,
                   nextId, nextRid, ncalls, nedits, everOverlap, cleared,
                   watched>>
    /\ cmakeCache' = InstalledCache(t)
    /\ projectName' = InstalledProjectName(t)
    /\ compilationDatabase' = InstalledCompdb(t)
    /\ outOfOrder' = (outOfOrder \/ t.rid < cmakeCache.by)
    /\ tasks' = tasks \ {t}
    /\ last' = CASE t.op \in {"configure", "cleanConfigure"}
                      -> Finished(Reloaded(t), "return", ReturnCode(t.retc))
                 [] t.op \in {"postBuild", "init"}
                      -> Finished(Reloaded(t), "return", <<>>)
                 [] OTHER -> last
    /\ registered' = (registered \/ t.op = "init")
    /\ initOk' = (initOk \/ t.op = "init")

-----------------------------------------------------------------------------
\* compilationInfoForFile

\* The source files that are asked about.
Paths == {"a.cpp", "b.cpp"}

\* The records of a compilation database, by file.
DbRecords(db) ==
    IF db = "db1" THEN {<<"a.cpp", "cc -c a.cpp">>} ELSE {}

\* db.getCompilationInfoForUri(vscode.Uri.file(filepath)): the record or
\* null; called on null it throws.
GetCompilationInfoForUri(db, filepath) ==
    IF db = "null"
    THEN [how |-> "throw", value |-> "null"]
    ELSE [how |-> "return",
          value |-> IF HasKey(DbRecords(db), filepath)
                    THEN Get(DbRecords(db), filepath)
                    ELSE "null"]

\* Mutant of CompilationInfoForFile: the database is used without the test
\* for null.
CompilationInfoUnguarded(filepath) ==
    GetCompilationInfoForUri(compilationDatabase.db, filepath)

\* const db = await this._compilationDatabase; if (!db) return null;
\* return db.getCompilationInfoForUri(...)
CompilationInfoForFile(filepath) ==
    IF compilationDatabase.db = "null"
    THEN [how |-> "return", value |-> "null"]
    ELSE GetCompilationInfoForUri(compilationDatabase.db, filepath)

-----------------------------------------------------------------------------
\* cleanConfigure

CleanConfigure ==
    /\ CanCall
    /\ tasks' = Started(NewTask("cleanConfigure", FALSE, "exists_cache"))
    /\ cleared' = FALSE
    /\ CallBookkeeping
    /\ UNCHANGED <<driverVars, watchVars, disk, pendingNotifs, errSink,
                   initOk, nextRid, nedits, watched, outOfOrder>>

\* return this.configure([], consumer): the process is spawned
Spawned(t) ==
    [t EXCEPT !.pc = "exec", !.ran = TRUE,
              !.absentAtExec = (disk'.cache = "absent" /\ ~disk'.files)]

\* await fs.exists(cache) settles
CleanExistsCache(t) ==
    /\ t.op = "cleanConfigure" /\ t.pc = "exists_cache"
    /\ tasks' = Replace(t, [t EXCEPT !.pc = IF disk.cache # "absent"
                                            THEN "unlink"
                                            ELSE "exists_files"])
    /\ UNCHANGED <<driverVars, watchVars, disk, pendingNotifs, last, errSink,
                   initOk, nextId, nextRid, ncalls, nedits, everOverlap,
                   cleared, watched, outOfOrder>>

\* Mutant of CleanFailureThrows: a failed deletion is swallowed.
CleanFailureSwallowed == FALSE

\* A failed deletion in cleanConfigure throws.
CleanFailureThrows == TRUE

\* The call after a deletion settled.
AfterDeletion(t, ok, next) ==
    IF ok
    THEN /\ tasks' = Replace(t, next)
         /\ last' = last
    ELSE IF CleanFailureThrows
         THEN /\ tasks' = tasks \ {t}
              /\ last' = Finished([t EXCEPT !.delFailed = TRUE], "throw", <<>>)
         ELSE /\ tasks' = Replace(t, [next EXCEPT !.delFailed = TRUE])
              /\ last' = last

\* await fs.unlink(cache) settles
CleanUnlink(t) ==
    /\ t.op = "cleanConfigure" /\ t.pc = "unlink"
    /\ UNCHANGED <<driverVars, watchVars, pendingNotifs, errSink, initOk,
                   nextId, nextRid, ncalls, nedits, everOverlap, cleared,
                   outOfOrder>>
    /\ \E ok \in BOOLEAN :
         /\ disk' = IF ok THEN [disk EXCEPT !.cache = "absent"] ELSE disk
         /\ watched' = IF ok THEN "no" ELSE watched
         /\ AfterDeletion(t, ok, [t EXCEPT !.pc = "exists_files"])

\* await fs.exists(cmake_files) settles
CleanExistsFiles(t) ==
    /\ t.op = "cleanConfigure" /\ t.pc = "exists_files"
    /\ disk' = disk
    /\ tasks' = Replace(t, IF disk.files THEN [t EXCEPT !.pc = "rmdir_files"]
                           ELSE Spawned(t))
    /\ UNCHANGED <<driverVars, watchVars, pendingNotifs, last, errSink,
                   initOk, nextId, nextRid, ncalls, nedits, everOverlap,
                   cleared, watched, outOfOrder>>

\* await fs.rmdir(cmake_files) settles
CleanRmdir(t) ==
    /\ t.op = "cleanConfigure" /\ t.pc = "rmdir_files"
    /\ UNCHANGED <<driverVars, watchVars, pendingNotifs, errSink, initOk,
                   nextId, nextRid, ncalls, nedits, everOverlap, cleared,
                   watched, outOfOrder>>
    /\ \E ok \in BOOLEAN :
         /\ disk' = IF ok THEN [disk EXCEPT !.files = FALSE] ELSE disk
         /\ AfterDeletion(t, ok, Spawned(t))

-----------------------------------------------------------------------------
\* doPostBuild, doInit, asyncDispose

PostBuild ==
    /\ CanCall
    /\ UNCHANGED <<driverVars, watchVars, disk, pendingNotifs, errSink,
                   initOk, nedits, cleared, watched, outOfOrder>>
    /\ tasks' = Started(Loading(NewTask("postBuild", FALSE, "load")))
    /\ nextRid' = nextRid + 1
    /\ CallBookkeeping

\* Mutant of InitReloads: doInit reloads whether or not the file exists.
InitReloadsAlways(d) == TRUE

\* if (await fs.exists(this.cachePath))
InitReloads(d) == d.cache # "absent"

\* await fs.exists(this.cachePath) settles: the reload starts, or the
\* listener is registered at once.
InitExists(t) ==
    /\ t.op = "init" /\ t.pc = "exists"
    /\ UNCHANGED <<driverVars, disposed, disk, pendingNotifs, errSink,
                   nextId, ncalls, nedits, everOverlap, cleared, watched,
                   outOfOrder>>
    /\ IF InitReloads(disk)
       THEN /\ tasks' = Replace(t, Loading(t))
            /\ nextRid' = nextRid + 1
            /\ UNCHANGED <<registered, initOk, last>>
       ELSE /\ tasks' = tasks \ {t}
            /\ registered' = TRUE
            /\ initOk' = TRUE
            /\ last' = Finished(t, "return", <<>>)
            /\ nextRid' = nextRid

\* Mutant of DisposeReleases: asyncDispose leaves the watcher alone.
DisposeKeepsWatching == disposed

\* this._cacheWatcher.dispose(): the watcher is released
DisposeReleases == TRUE

\* asyncDispose; a released watcher fires no event, and releasing it again
\* does nothing
Dispose ==
    /\ initOk
    /\ UNCHANGED <<driverVars, registered, disk, errSink, initOk, nextRid,
                   nedits, cleared, outOfOrder>>
    /\ ncalls + nedits < MaxEvents
    /\ Cardinality(Callers) <= 1
    /\ disposed' = DisposeReleases
    /\ pendingNotifs' = (pendingNotifs /\ ~disposed')
    /\ watched' = IF watched = "pending" /\ disposed' THEN "no" ELSE watched
    /\ tasks' = {[u EXCEPT !.solo = (u.op = "watch" /\ u.solo)] : u \in tasks}
    /\ ncalls' = ncalls + 1
    /\ nextId' = nextId + 1
    /\ everOverlap' = (everOverlap \/ Callers # {})
    /\ last' = Finished([NewTask("dispose", FALSE, "done")
                            EXCEPT !.twice = disposed],
                        "return", <<>>)

-----------------------------------------------------------------------------
\* The environment: the watcher and whoever else writes the cache file.

\* Something outside the driver rewrites the cache file.
ExternalEdit ==
    /\ ncalls + nedits < MaxEvents
    /\ disk.cache # "absent"
    /\ \E c \in EditWrites \ {disk.cache} :
         disk' = [disk EXCEPT !.cache = c]
    /\ nedits' = nedits + 1
    /\ pendingNotifs' = (pendingNotifs \/ ~disposed)
    /\ watched' = IF disposed THEN "no" ELSE "pending"
    /\ tasks' = {[u EXCEPT !.edited = (u.edited \/ (InReload(u) /\ u.op # "watch"))] :
                   u \in tasks}
    /\ UNCHANGED <<driverVars, watchVars, last, errSink, initOk, nextId,
                   nextRid, ncalls, everOverlap, cleared, outOfOrder>>

\* The watcher fires a change event: the listener, when registered, hands
\* a reload to rollbar.invokeAsync.
Notify ==
    /\ pendingNotifs
    /\ pendingNotifs' = FALSE
    /\ disk' = disk
    /\ IF registered /\ ~disposed
       THEN /\ tasks' = tasks \cup
                 {Loading([NoTask EXCEPT !.id = nextId, !.op = "watch"])}
            /\ nextId' = nextId + 1
            /\ nextRid' = nextRid + 1
            /\ watched' = IF watched = "pending" THEN "yes" ELSE watched
       ELSE /\ UNCHANGED <<tasks, nextId, nextRid>>
            /\ watched' = IF watched = "pending" THEN "no" ELSE watched
    /\ UNCHANGED <<driverVars, watchVars, last, errSink, initOk,
                   ncalls, nedits, everOverlap, cleared, outOfOrder>>

-----------------------------------------------------------------------------
Next ==
    \/ \E need_clean \in BOOLEAN : SetKit(need_clean)
    \/ \E t \in tasks : SetKitRmdir(t)
    \/ \E t \in tasks : SetKitCb(t)
    \/ \E t \in tasks : SetKitDone(t)
    \/ Configure
    \/ \E t \in tasks : ProcessDone(t)
    \/ \E t \in tasks : ReloadFail(t)
    \/ \E t \in tasks : ReloadInstall(t)
    \/ CleanConfigure
    \/ \E t \in tasks : CleanExistsCache(t)
    \/ \E t \in tasks : CleanUnlink(t)
    \/ \E t \in tasks : CleanExistsFiles(t)
    \/ \E t \in tasks : CleanRmdir(t)
    \/ PostBuild
    \/ \E t \in tasks : InitExists(t)
    \/ Dispose
    \/ ExternalEdit
    \/ Notify

Spec == Init /\ [][Next]_vars

-----------------------------------------------------------------------------
\* The claims.  last is the record of the call that finished last, taken in
\* the step in which it finished; solo says that no other driver method ran
\* while it did; mid marks a configure and the setKit called while that
\* configure waited for its process, and peer says that the other of the two
\* had returned before.

ConfigureEnded ==
    /\ last.pc = "done"
    /\ last.op \in {"configure", "cleanConfigure"}
    /\ last.exited

\* C1, as claimed: a configure call whose process exit code is not 0
\* returns with needsReconfigure true, whatever the state at its start.
C1_FlagTrueAfterFailure ==
    (ConfigureEnded /\ last.retc # <<0>> /\ last.how = "return" /\ last.solo)
        => last.nrEnd = TRUE

\* C1, amended: a configure call whose process exit code is not 0 (non-zero
\* or null) leaves needsReconfigure as it was when the call started, whether
\* the call returns or its reload throws: true for an Unconfigured or Stale
\* driver, false for a Configured one.
C1_FlagKeptByFailure ==
    (ConfigureEnded /\ last.retc # <<0>> /\ last.solo)
        => last.nrEnd = last.nrStart

\* A failed configure has returned on a driver that was Configured.
C1_Witness ==
    /\ ConfigureEnded /\ last.retc # <<0>> /\ last.how = "return" /\ last.solo
    /\ ~last.nrStart
    /\ ~needsReconfigure

\* C2, as claimed: every configure call hands its caller a number, the
\* process exit code or -1 for a null code, and never throws, also when the
\* reload after a failed process cannot load the cache file.
C2_ExitCodeReturned ==
    (ConfigureEnded /\ last.retc # <<0>>)
        => /\ last.how = "return"
           /\ last.code = (IF last.retc = <<>> THEN <<-1>> ELSE last.retc)

\* C3: a configure call whose process exit code is 0 ends with
\* needsReconfigure false, and when it returns currentCache is the snapshot
\* of the cache file as it is on disk (no other driver method ran during the
\* call and nothing else rewrote the file during its reload).
C3_SuccessfulConfigure ==
    (ConfigureEnded /\ last.retc = <<0>> /\ last.solo)
        => /\ last.nrEnd = FALSE
           /\ (last.how = "return" /\ ~last.edited) => last.synced

\* A configure has exited 0 and returned with the cache it wrote loaded.
C3_Witness ==
    /\ ConfigureEnded /\ last.retc = <<0>> /\ last.solo /\ ~last.edited
    /\ last.how = "return"
    /\ last.nrStart /\ ~last.nrEnd /\ last.synced

\* C4, as claimed: when no two driver methods overlap, needsReconfigure is
\* false only if a configure has exited 0 and neither setKit nor
\* cleanConfigure has started since that configure started.
C4_FlagFalseOnlyAfterSuccess ==
    ~everOverlap => (needsReconfigure = FALSE => cleared)

\* C5, as claimed: with no operation in progress the driver is Unconfigured,
\* Configured or Stale, never needsReconfigure = false without a cache.
C5_ThreeStates ==
    tasks = {} => ~(needsReconfigure = FALSE /\ ~cmakeCache.loaded)

\* C6: for every setKit call with cleanRequired = true, the binary directory
\* does not exist when the kit callback starts, needsReconfigure is true when
\* the call returns, whatever it was before, and a failed deletion throws
\* without the callback ever being invoked (the first two for calls that no
\* other driver method overlaps).
C6_SetKitClean ==
    \A t \in tasks \cup {last} :
        (t.op = "setKit" /\ t.clean)
            => /\ (t.cbRan /\ t.solo) => ~t.dirAtCb
               /\ (t.pc = "done" /\ t.how = "return" /\ t.solo) => t.nrEnd
               /\ t.delFailed => (~t.cbRan /\ t.pc = "done" /\ t.how = "throw")

\* setKit(true, cb) has returned on a driver that was Configured.
C6_Witness ==
    /\ last.pc = "done" /\ last.op = "setKit" /\ last.clean /\ last.solo
    /\ last.how = "return" /\ last.cbRan /\ ~last.dirAtCb
    /\ ~last.nrStart /\ last.nrEnd

\* C7: cleanConfigure spawns the process only after its deletions have
\* succeeded; a failed deletion throws and the process is never spawned by
\* that call; and, when no other driver method overlaps the call, the cache
\* file and the intermediate-files directory are both absent when the process
\* is spawned.
C7_CleanBeforeConfigure ==
    \A t \in tasks \cup {last} :
        t.op = "cleanConfigure"
            => /\ t.ran => ~t.delFailed
               /\ t.delFailed => (t.pc = "done" /\ t.how = "throw")
               /\ (t.ran /\ t.solo) => t.absentAtExec

\* cleanConfigure, alone on a driver that had loaded its cache file at init,
\* has deleted the file and spawned the process.
C7_Witness ==
    /\ ncalls = 1 /\ nedits = 0 /\ cmakeCache.loaded
    /\ \E t \in tasks : /\ t.op = "cleanConfigure" /\ t.pc = "exec"
                        /\ t.ran /\ t.solo /\ t.absentAtExec

\* C8: in every state currentCache and currentCompilationDatabase were
\* installed by the same reload, or are both the initial values.
C8_SnapshotsPaired == cmakeCache.by = compilationDatabase.by

\* Reloads have overlapped and completed out of order, and one has failed.
C8_Witness ==
    /\ outOfOrder
    /\ errSink > 0
    /\ cmakeCache.loaded

\* No reload is in progress and no change event is waiting.
Quiet == tasks = {} /\ ~pendingNotifs

\* C9, as claimed: on an initialized driver on which no method has been
\* called (no configure is running), once the last edit has been notified
\* and every reload has completed, currentCache is the content of the cache
\* file on disk (when it parses), in whatever order overlapping reloads
\* complete.
C9_EditsReachCache ==
    (ncalls = 0 /\ watched = "yes" /\ Quiet /\ FromPath(disk.cache).ok)
        => InSync(cmakeCache, disk)

\* C9, amended: the same (and also when driver methods have been called),
\* provided no reload has completed after a reload that was started later
\* than it.
C9_EditsReachCacheInOrder ==
    (watched = "yes" /\ Quiet /\ FromPath(disk.cache).ok /\ ~outOfOrder)
        => InSync(cmakeCache, disk)

\* Two edits have been notified, each has started a reload, and both
\* reloads have completed.
C9_Witness ==
    /\ ncalls = 0 /\ watched = "yes" /\ Quiet /\ ~outOfOrder
    /\ nedits > 1
    /\ cmakeCache.by > nedits
    /\ InSync(cmakeCache, disk)

\* The reload t fails in this step.
Fails(t) ==
    /\ t.pc = "load" /\ ~t.loadOk
    /\ \A u \in tasks' : u.rid # t.rid

\* C10: a reload's failure is surfaced exactly once: thrown to the caller of
\* configure, postBuild or init that awaited it, and, for a reload that a
\* change event started, added to the error-reporting sink and thrown at
\* no one.
C10_FailureSurfacedOnce ==
    [][\A t \in tasks :
          Fails(t) =>
              IF t.op = "watch"
              THEN errSink' = errSink + 1 /\ last' = last
              ELSE /\ errSink' = errSink
                   /\ last'.pc = "done" /\ last'.op = t.op
                   /\ last'.how = "throw"]_vars

\* A watched reload's failure is in the sink, and postBuild has thrown the
\* failure of its reload.
C10_Witness ==
    /\ errSink > 0
    /\ last.pc = "done" /\ last.op = "postBuild" /\ last.how = "throw"

\* C11: a configure call starts no reload while its process runs, starts
\* exactly one once the process has returned, whatever the exit code (0,
\* non-zero or null), and ends only when that reload has settled.
C11_OneReloadAfterProcess ==
    \A t \in tasks \cup {last} :
        (t.op \in {"configure", "cleanConfigure"} /\ t.ran)
            => /\ t.pc = "exec" => (~t.exited /\ t.loads = 0)
               /\ t.pc = "load" => (t.exited /\ t.loads = 1 /\ t.loadsDone = 0)
               /\ t.pc = "done" => (t.exited /\ t.loads = 1 /\ t.loadsDone = 1)

\* A configure whose process ended with a null exit code has returned -1
\* after its one reload.
C11_Witness ==
    /\ ConfigureEnded /\ last.op = "configure" /\ last.retc = <<>>
    /\ last.how = "return" /\ last.code = <<-1>>
    /\ last.loads = 1 /\ last.loadsDone = 1

\* C12, as claimed: when init returns on a driver whose cache file existed at
\* construction, exactly one reload has completed, the change listener is
\* registered, and currentCache is the content of the cache file on disk at
\* that moment, also when the file was edited during init's reload.
C12_InitReflectsDisk ==
    (last.op = "init" /\ last.pc = "done" /\ last.how = "return"
        /\ last.loads > 0)
        => /\ last.loads = 1 /\ last.loadsDone = 1
           /\ registered
           /\ last.synced

\* C13: when init has ended on a driver for which no cache file exists, it
\* has returned, needsReconfigure is true, currentCache is None, the
\* cmakeCacheEntries mapping is empty and no reload has been started.
C13_NoCacheAtConstruction ==
    (last.op = "init" /\ last.pc = "done" /\ ncalls = 0
        /\ disk.cache = "absent")
        => /\ last.how = "return"
           /\ needsReconfigure = TRUE
           /\ ~cmakeCache.loaded
           /\ DOMAIN CmakeCacheEntries(cmakeCache) = {}
           /\ last.loads = 0 /\ nextRid = 1

\* init has returned on a driver with no build directory, and its listener
\* is registered.
C13_Witness ==
    /\ last.op = "init" /\ last.pc = "done" /\ last.how = "return"
    /\ ncalls = 0 /\ disk = NoDisk
    /\ initOk /\ registered
    /\ needsReconfigure /\ cmakeCache = NoCache
    /\ CmakeCacheEntries(cmakeCache) = <<>>

Installs(t) ==
    /\ t.pc = "load" /\ t.loadOk
    /\ \A u \in tasks' : u.rid # t.rid

\* C15: a successful reload whose snapshot has a CMAKE_PROJECT_NAME entry
\* sets the project name to the entry's value, and one whose snapshot has
\* none leaves the project name as it was; so the project name is that of
\* currentCache whenever currentCache has the entry.
C15_ProjectName ==
    /\ [][\A t \in tasks :
             Installs(t) =>
                 IF HasKey(t.new_cache, "CMAKE_PROJECT_NAME")
                 THEN projectName' = Get(t.new_cache, "CMAKE_PROJECT_NAME")
                 ELSE projectName' = projectName]_vars
    /\ [](HasKey(cmakeCache.entries, "CMAKE_PROJECT_NAME")
             => projectName = Get(cmakeCache.entries, "CMAKE_PROJECT_NAME"))

\* The project name set from one snapshot has outlived a later reload whose
\* snapshot has no project-name entry.
C15_Witness ==
    /\ projectName = "Foo"
    /\ cmakeCache.loaded
    /\ ~HasKey(cmakeCache.entries, "CMAKE_PROJECT_NAME")
    /\ ~outOfOrder

\* C16: in every state compilationInfoForFile(p) returns for every path p:
\* null when no compilation database is loaded (before any reload, or after
\* a reload that found no compile_commands.json), null when the loaded
\* database has no record for p, and the record for p otherwise.
C16_CompilationInfo ==
    \A p \in Paths :
        LET r == CompilationInfoForFile(p)
            db == compilationDatabase.db
        IN  /\ r.how = "return"
            /\ db = "null" => r.value = "null"
            /\ (db # "null" /\ ~HasKey(DbRecords(db), p)) => r.value = "null"
            /\ (db # "null" /\ HasKey(DbRecords(db), p))
                   => r.value = Get(DbRecords(db), p)

\* A reload has installed the null database of a build directory without
\* compile_commands.json, and compilationInfoForFile returns null.
C16_Witness ==
    /\ compilationDatabase.by > 0
    /\ compilationDatabase.db = "null"
    /\ CompilationInfoForFile("a.cpp") = [how |-> "return", value |-> "null"]

\* What a reader sees of the driver's derived state.
Contents(cache, compdb, name) == <<cache.loaded, cache.entries, compdb.db, name>>

\* C17: a reload that completes on a driver whose last reload loaded the
\* same cache file and the same compile_commands.json (nothing changed on
\* disk between the two) leaves currentCache, currentCompilationDatabase and
\* the project name with the contents they had after the first.
C17_ReloadIdempotent ==
    [][\A t \in tasks :
          (/\ Installs(t)
           /\ cmakeCache.loaded /\ cmakeCache.entries = t.new_cache
           /\ compilationDatabase.by > 0
           /\ compilationDatabase.db = CompdbFromFilePath(disk.db))
              => Contents(cmakeCache', compilationDatabase', projectName')
                   = Contents(cmakeCache, compilationDatabase, projectName)]_vars

\* On a driver whose init loaded the cache file, two calls that only reload
\* have run one after the other with nothing written, and the third reload
\* has installed what the first did.
C17_Witness ==
    /\ ncalls = 2 /\ nedits = 0 /\ ~everOverlap
    /\ last.op = "postBuild" /\ last.pc = "done" /\ last.how = "return"
    /\ cmakeCache.by = 3 /\ compilationDatabase.by = 3
    /\ disk = [dir |-> TRUE, cache |-> "c0", files |-> TRUE, db |-> "db1"]
    /\ Contents(cmakeCache, compilationDatabase, projectName)
         = <<TRUE, EntriesOf("c0"), "db1", "">>

\* C18: the step in which a reload's cache load fails changes none of
\* currentCache, currentCompilationDatabase, the project name and
\* needsReconfigure; the compilation database is not loaded again.
C18_FailedReloadChangesNothing ==
    [][\A t \in tasks : Fails(t) => driverVars' = driverVars]_vars

\* The cache file of a Configured driver was made unparsable, the reload for
\* that change has failed, and the driver still holds what it had loaded.
C18_Witness ==
    /\ errSink = 1 /\ Quiet
    /\ disk.cache = "bad"
    /\ needsReconfigure = FALSE
    /\ Contents(cmakeCache, compilationDatabase, projectName)
         = <<TRUE, EntriesOf("cFoo"), "db1", "Foo">>

\* C19, as claimed: when setKit is called while a configure call waits for
\* its process, needsReconfigure is true once both calls have returned, also
\* when the process exits 0.
C19_KitChangeNotLost ==
    (last.pc = "done" /\ last.mid /\ last.how = "return" /\ last.peer)
        => last.nrEnd = TRUE

\* A step of a call of op: the call starts, moves on from an await, or ends.
StepOf(op) ==
    \/ \E u \in tasks' : u.op = op /\ \A t \in tasks : t.id # u.id
    \/ \E t \in tasks : /\ t.op = op
                        /\ \A u \in tasks' : u.id = t.id => u.pc # t.pc

\* C20: a setKit call never spawns the process and never starts a reload,
\* and none of its steps changes currentCache, currentCompilationDatabase or
\* the project name, also when it has just deleted the binary directory
\* with the cache file in it; no step of postBuild changes needsReconfigure.
C20_Frame ==
    /\ [](\A t \in tasks \cup {last} :
             t.op = "setKit" => (~t.ran /\ ~t.exited /\ t.loads = 0))
    /\ [][StepOf("setKit")
             => UNCHANGED <<cmakeCache, compilationDatabase, projectName>>]_vars
    /\ [][StepOf("postBuild") => UNCHANGED needsReconfigure]_vars

\* setKit(true, cb) has deleted the binary directory of a driver that had
\* loaded its cache file, and has returned with the cache still loaded.
C20_Witness ==
    /\ last.op = "setKit" /\ last.clean /\ last.pc = "done"
    /\ last.how = "return" /\ last.solo /\ last.cbRan
    /\ disk = NoDisk
    /\ Contents(cmakeCache, compilationDatabase, projectName)
         = <<TRUE, EntriesOf("c0"), "db1", "">>

====
